---- MODULE Spec2Model ----
(***************************************************************************)
(* smallsh (src/main.c): the read / tokenize / dispatch / wait / reap loop *)
(* of the shell, its SIGTSTP handler, and the children it forks.           *)
(*                                                                         *)
(* A character is a one-character string, a C string is a sequence of      *)
(* characters, and the null pointer is the model value NULL.               *)
(***************************************************************************)
EXTENDS Integers, Sequences, FiniteSets, TLC

\* ------------------------------------------------------------------ bounds
\* Number of children the shell forks in one run (pids 1..MaxChildren).
MaxChildren == 2
\* Number of command_line slots the model keeps (the source has 2048).
MaxArgs == 2

\* ------------------------------------------------------- C strings, tokens
\* Pointers that are no string: each is a one-element sequence whose element
\* is no character, so it differs from every C string.
NULL == <<"NULL">>
\* An uninitialized or out-of-range pointer (command_line[] before its first
\* assignment, command_line[-1]).
WILD == <<"WILD">>
NL == "\n"
SP == " "
\* getpid() of the shell, printed by sprintf("%d") (main.c:55).
ShellPidDigits == <<"7", "7">>

IsPtr(p) == p # NULL /\ p # WILD

RECURSIVE SkipSpaces(_)
\* strtok skips the leading delimiters of the rest of the string.
SkipSpaces(s) ==
    IF s = <<>> \/ Head(s) # SP THEN s ELSE SkipSpaces(Tail(s))

RECURSIVE TakeToken(_)
\* The characters of s up to its first delimiter.
TakeToken(s) ==
    IF s = <<>> \/ Head(s) = SP THEN <<>> ELSE <<Head(s)>> \o TakeToken(Tail(s))

RECURSIVE Strtok(_)
\* Every token the successive strtok(.., " ") calls return for the line s.
Strtok(s) ==
    LET r == SkipSpaces(s)
        t == TakeToken(r)
    IN  IF r = <<>> THEN <<>>
        ELSE <<t>> \o Strtok(SubSeq(r, Len(t) + 1, Len(r)))

IsWhite(c) == c = SP \/ c = NL

RECURSIVE SkipWhite(_)
SkipWhite(s) ==
    IF s = <<>> \/ ~IsWhite(Head(s)) THEN s ELSE SkipWhite(Tail(s))

RECURSIVE TakeWord(_)
TakeWord(s) ==
    IF s = <<>> \/ IsWhite(Head(s)) THEN <<>> ELSE <<Head(s)>> \o TakeWord(Tail(s))

\* sscanf(token, "%s", dest): skips white space, stores the next run of
\* non-white characters; when there is none, dest keeps its old contents.
Sscanf(token, dest) ==
    LET w == TakeWord(SkipWhite(token))
    IN  IF w = <<>> THEN dest ELSE w

\* strstr(s, "$$") == s
StartsDD(s) == Len(s) >= 2 /\ s[1] = "$" /\ s[2] = "$"

RECURSIVE HasDD(_)
\* strstr(s, "$$") != NULL
HasDD(s) == IF Len(s) < 2 THEN FALSE ELSE StartsDD(s) \/ HasDD(Tail(s))

RECURSIVE replace_double_dollarsigns(_, _)
\* The copy loop of replace_double_dollarsigns, pid given by its digits.
replace_double_dollarsigns(str, pid) ==
    IF str = <<>> THEN <<>>
    ELSE IF StartsDD(str)
         THEN pid \o replace_double_dollarsigns(SubSeq(str, 3, Len(str)), pid)
         ELSE <<Head(str)>> \o replace_double_dollarsigns(Tail(str), pid)

\* ------------------------------------------------------------ input lines
L_blank     == <<NL>>
L_space     == <<SP, NL>>
L_comment   == <<"#", "c", NL>>
L_exit      == <<"e", "x", "i", "t", NL>>
L_cd        == <<"c", "d", NL>>
L_status    == <<"s", "t", "a", "t", "u", "s", NL>>
L_a         == <<"a", NL>>
L_a_bg      == <<"a", SP, "&", NL>>
L_amp       == <<"&", NL>>
L_a_in      == <<"a", SP, "<", SP, "i", NL>>
L_a_out_bg  == <<"a", SP, ">", SP, "o", SP, "&", NL>>
L_a_lt_eof  == <<"a", SP, "<">>
L_a_lt_nl   == <<"a", SP, "<", NL>>
L_out_only  == <<">", SP, "o", NL>>
L_a_in_dd   == <<"a", SP, "<", SP, "$", "$", NL>>
L_a_dd      == <<"a", SP, "$", "$", "$", NL>>

\* What fgets can leave in user_input: a line with its newline, or the
\* unterminated last line of the input.
Lines ==
    { L_blank, L_space, L_comment, L_exit, L_cd, L_status, L_a, L_a_bg,
      L_amp, L_a_in, L_a_out_bg, L_a_lt_eof, L_a_lt_nl, L_out_only,
      L_a_in_dd, L_a_dd }

\* How the build resolves a use of a null, wild or out-of-range pointer:
\* the access faults (SIGSEGV), or it reads bytes that match nothing.
UBOutcomes == {"fault", "garbage"}

\* --------------------------------------------------------------- tokenizing
Slots == 0..MaxArgs

RECURSIVE ParseLoop(_, _, _, _)
\* main.c:126-153, the loop over the tokens toks[k..]; st holds
\* command_line, index, input_file, output_file, str, and whether a
\* faulting access has killed the shell.
ParseLoop(toks, k, st, ub) ==
    IF st.fault \/ k > Len(toks) THEN st
    ELSE LET token == toks[k]
             more == k + 1 <= Len(toks)
             s == Sscanf(token, st.str)
         IN  IF token = <<"<">>
             THEN IF more
                  THEN ParseLoop(toks, k + 2,
                         [st EXCEPT !.input_file = Sscanf(toks[k + 1], @)], ub)
                  ELSE IF ub = "fault" THEN [st EXCEPT !.fault = TRUE]
                       ELSE ParseLoop(toks, k + 2, st, ub)
             ELSE IF token = <<">">>
             THEN IF more
                  THEN ParseLoop(toks, k + 2,
                         [st EXCEPT !.output_file = Sscanf(toks[k + 1], @)], ub)
                  ELSE IF ub = "fault" THEN [st EXCEPT !.fault = TRUE]
                       ELSE ParseLoop(toks, k + 2, st, ub)
             ELSE IF HasDD(token)
             THEN ParseLoop(toks, k + 1,
                    [st EXCEPT !.str = s,
                               !.cl[st.index] =
                                   replace_double_dollarsigns(s, ShellPidDigits),
                               !.index = @ + 1], ub)
             ELSE ParseLoop(toks, k + 1,
                    [st EXCEPT !.str = s, !.cl[st.index] = s, !.index = @ + 1], ub)

\* main.c:113-158: the per-iteration variables, the tokenizing loop, and
\* the blank-line test on user_input[0].
Tokenize(line, cl, str, ub) ==
    LET st == ParseLoop(Strtok(line), 1,
                  [cl |-> cl, index |-> 0, input_file |-> <<>>,
                   output_file |-> <<>>, str |-> str, fault |-> FALSE], ub)
    IN  IF ~st.fault /\ line[1] = NL THEN [st EXCEPT !.cl[0] = NULL] ELSE st

FirstChar(s) == IF s = <<>> THEN "NUL" ELSE s[1]

T_amp    == <<"&">>
T_exit   == <<"e", "x", "i", "t">>
T_cd     == <<"c", "d">>
T_status == <<"s", "t", "a", "t", "u", "s">>

\* main.c:161-170: the guard on command_line[0] and the removal of a
\* trailing "&".  r.kind is "skip" when the guard fails, "fault" when an
\* access kills the shell, "run" otherwise.
Background(st, bg, ub) ==
    LET c0 == st.cl[0]
        last == IF st.index = 0 THEN WILD ELSE st.cl[st.index - 1]
        base == [cl |-> st.cl, index |-> st.index, bg |-> bg]
    IN  IF st.fault THEN base @@ [kind |-> "fault"]
        ELSE IF c0 = NULL THEN base @@ [kind |-> "skip"]
        ELSE IF c0 = WILD /\ ub = "fault" THEN base @@ [kind |-> "fault"]
        ELSE IF IsPtr(c0) /\ FirstChar(c0) = "#" THEN base @@ [kind |-> "skip"]
        ELSE IF ~IsPtr(last) /\ ub = "fault" THEN base @@ [kind |-> "fault"]
        ELSE IF last = T_amp
             THEN [cl |-> [st.cl EXCEPT ![st.index - 1] = NULL],
                   index |-> st.index, bg |-> 1, kind |-> "run"]
             ELSE [cl |-> [st.cl EXCEPT ![st.index] = NULL],
                   index |-> st.index + 1, bg |-> 0, kind |-> "run"]

\* main.c:173-199: which branch of the strcmp chain on command_line[0] runs.
Classify(c0, ub) ==
    IF ~IsPtr(c0) THEN (IF ub = "fault" THEN "fault" ELSE "external")
    ELSE IF c0 = T_exit THEN "exit"
    ELSE IF c0 = T_cd THEN "cd"
    ELSE IF c0 = T_status THEN "status"
    ELSE "external"

\* ------------------------------------------------------------ wait status
\* Wait statuses the kernel hands to waitpid: exit(0), exit(1) (1 << 8),
\* killed by SIGINT (2), killed by SIGSEGV with a core dump (11 + 0x80).
WaitStatuses == {0, 256, 2, 139}
\* The wait status of a child killed by SIGINT.
KilledBySigint(ws) == ws = 2

\* <sys/wait.h>
WIFEXITED(s) == s % 128 = 0
WEXITSTATUS(s) == (s \div 256) % 256

\* main.c:190-196 and main.c:266-273: the text printed for a wait status.
StatusText(s) ==
    IF WIFEXITED(s) THEN [k |-> "exit value", v |-> WEXITSTATUS(s)]
    ELSE [k |-> "terminated by signal", v |-> s]

\* -------------------------------------------------------------------- state
VARIABLES
    pc,                     \* where the shell is: "read" (blocked in fgets),
                            \* "fork", "fgwait" (blocked in waitpid), "reap",
                            \* or ended: "exited", "fork_exit", "segv",
                            \* "killed"
    user_input,             \* main.c:89, the line as fgets left it
    foreground_mode_flag,   \* main.c:22
    background_mode_flag,   \* main.c:93
    child_exit_status,      \* main.c:92
    spawnPid,               \* main.c:94
    command_line,           \* main.c:90
    str,                    \* main.c:91
    index,                  \* main.c:115
    input_file,             \* main.c:113
    output_file,            \* main.c:114
    cwd,                    \* the working directory of the shell process
    child,                  \* the process table: the children of the shell
    eintr,                  \* the blocking call of the shell was interrupted
    out,                    \* what the shell wrote in its latest step
    lastFg,                 \* <<wait status>> of the latest child the
                            \* foreground wait collected, <<>> before
    deliveries,             \* number of SIGTSTP deliveries so far, modulo 2
    execd                   \* <<what the child forked in this iteration did
                            \* in its branch of the switch>>, <<>> if none

vars == <<pc, user_input, foreground_mode_flag, background_mode_flag, child_exit_status,
          spawnPid, command_line, str, index, input_file, output_file, cwd,
          child, eintr, out, lastFg, deliveries, execd>>

Pids == 1..MaxChildren

\* A process table entry: st is "none" (not forked yet), "running",
\* "failing" (a call of the child's branch has failed and the child is on
\* its way to _exit(1)), "zombie" (terminated, wait status ws) or "reaped"
\* (collected by waitpid, the entry is gone); waited, announced and reported
\* record what the shell did with the child.
NoChild == [st |-> "none", ws |-> 0, sigint |-> "IGN", waited |-> FALSE,
            announced |-> FALSE, reported |-> FALSE]

\* waitpid returns a terminated child: its process table entry is released.
Collected(c) == [c EXCEPT !.st = "reaped", !.ws = 0, !.sigint = "IGN"]

\* The child has not terminated.
Alive(c) == c.st \in {"running", "failing"}

FreePids == {p \in Pids : child[p].st = "none"}
Zombies  == {p \in Pids : child[p].st = "zombie"}

\* main.c:89-96 and 113-115; command_line and str are not initialized.
Init ==
    /\ pc = "read"
    /\ user_input = L_blank
    /\ foreground_mode_flag = 0
    /\ background_mode_flag = 0
    /\ child_exit_status = -5
    /\ spawnPid = -5
    /\ command_line \in {[i \in Slots |-> NULL], [i \in Slots |-> WILD]}
    /\ str \in {<<>>, <<"?">>}
    /\ index = 0
    /\ input_file = <<>>
    /\ output_file = <<>>
    /\ cwd = "start"
    /\ child = [p \in Pids |-> NoChild]
    /\ eintr = FALSE
    /\ out = <<>>
    /\ lastFg = <<>>
    /\ deliveries = 0
    /\ execd = <<>>

\* chdir(path) from directory d: "d" exists under the start directory only.
Chdir(d, path) ==
    IF path = <<"d">> /\ d = "start" THEN "d" ELSE d

\* main.c:177-186
RunCd(cl, idx, d) ==
    IF idx - 1 = 1 THEN "HOME" ELSE Chdir(d, cl[1])

\* A loop that clears the flag as it goes.
MainLoopFlag_Reset == foreground_mode_flag' = 0

\* main.c:111-277: the main loop has no assignment to foreground_mode_flag;
\* it reads the flag at main.c:252 only.
MainLoopFlag == foreground_mode_flag' = foreground_mode_flag

\* main.c:113-120: the next iteration re-initializes its locals and
\* user_input before it blocks in fgets.
NextIteration ==
    /\ pc' = "read"
    /\ user_input' = L_blank
    /\ index' = 0
    /\ input_file' = <<>>
    /\ output_file' = <<>>
    /\ execd' = <<>>

\* main.c:118-199: one line is read, tokenized, and a built-in is run.
ReadLine ==
    /\ pc = "read"
    /\ \E line \in Lines, ub \in UBOutcomes :
      \E st \in {Tokenize(line, command_line, str, ub)} :
      \E b \in {Background(st, background_mode_flag, ub)} :
      \E kind \in {IF b.kind = "run" THEN Classify(b.cl[0], ub) ELSE b.kind} :
            /\ kind = "external" => FreePids # {}
            /\ command_line' = b.cl
            /\ str' = st.str
            /\ background_mode_flag' = b.bg
            /\ out' = IF kind = "status" THEN <<StatusText(child_exit_status)>>
                      ELSE <<>>
            /\ cwd' = IF kind = "cd" THEN RunCd(b.cl, b.index, cwd) ELSE cwd
            /\ CASE kind = "skip" -> NextIteration
                 [] kind = "fault" ->
                      /\ pc' = "segv"
                      /\ execd' = execd
                      /\ user_input' = line
                      /\ index' = b.index
                      /\ input_file' = st.input_file
                      /\ output_file' = st.output_file
                 [] OTHER ->
                      /\ pc' = CASE kind = "exit" -> "exited"
                                 [] kind = "external" -> "fork"
                                 [] OTHER -> "reap"
                      /\ execd' = execd
                      /\ user_input' = line
                      /\ index' = b.index
                      /\ input_file' = st.input_file
                      /\ output_file' = st.output_file
    /\ MainLoopFlag
    /\ UNCHANGED <<child_exit_status, spawnPid, child,
                   eintr, lastFg, deliveries>>

\* main.c:209-212: the SIGINT disposition the child gives itself.
ChildSigint(bg) == IF bg = 0 THEN "DFL" ELSE "IGN"

\* main.c:200-206: fork() returns -1; the shell reports it and _exit(1)s.
ForkFail ==
    /\ pc = "fork"
    /\ pc' = "fork_exit"
    /\ spawnPid' = -1
    /\ out' = <<[k |-> "fork() failed!", v |-> 0]>>
    /\ MainLoopFlag
    /\ UNCHANGED <<user_input, background_mode_flag,
                   child_exit_status, command_line, str, index, input_file,
                   output_file, cwd, child, eintr, lastFg, deliveries, execd>>

\* main.c:252: whether the parent waits for the child it has just forked.
ParentWaits(fg, bg) == fg = 1 \/ bg = 0

\* main.c:243: the commands execvp finds on the search path.
Programs == {<<"a">>}

RECURSIVE ArgvFrom(_, _)
ArgvFrom(cl, i) ==
    IF i > MaxArgs \/ cl[i] = NULL THEN <<>>
    ELSE <<cl[i]>> \o ArgvFrom(cl, i + 1)

\* main.c:243: the argument vector execvp reads from command_line, the
\* entries before the first null pointer.
Argv(cl) == ArgvFrom(cl, 0)

\* What open followed by dup2 can do (main.c:214-225 and 229-240).
FileOutcomes == {"ok", "open", "dup2"}

\* A child whose execvp fails and that does not _exit.
ChildEnds_FallThrough(outcome) ==
    IF outcome = "exec" THEN "running"
    ELSE IF outcome = "exec_fails" THEN "looping"
    ELSE "failing"

\* main.c:216-248: every failing call of the child's branch is followed by
\* _exit(1); after a successful execvp the child runs the program.
ChildEnds(outcome) ==
    IF outcome = "exec" THEN "running" ELSE "failing"

\* main.c:207-249, the child's branch of the switch: the SIGINT
\* disposition, the two redirections, execvp.  io and oo say how the open
\* and dup2 of the input and of the output file go.
ChildBranch(bg, inf, outf, cl, io, oo) ==
    LET inFails  == inf # <<>> /\ io # "ok"
        outFails == outf # <<>> /\ oo # "ok"
        argv == Argv(cl)
    IN  [sigint  |-> ChildSigint(bg),
         stdin   |-> IF inf # <<>> /\ ~inFails THEN "file" ELSE "tty",
         stdout  |-> IF outf # <<>> /\ ~inFails /\ ~outFails THEN "file"
                     ELSE "tty",
         argv    |-> argv,
         outcome |-> IF inFails THEN (IF io = "open" THEN "in_open"
                                      ELSE "in_dup2")
                     ELSE IF outFails THEN (IF oo = "open" THEN "out_open"
                                            ELSE "out_dup2")
                     ELSE IF IsPtr(cl[0]) /\ cl[0] \in Programs THEN "exec"
                     ELSE "exec_fails"]

\* main.c:200-260: fork() succeeds; the child runs its branch of the switch
\* and the parent either enters the foreground wait or announces the pid.
Fork ==
    /\ pc = "fork"
    /\ FreePids # {}
    /\ \E io \in FileOutcomes, oo \in FileOutcomes :
       LET p == CHOOSE q \in FreePids : \A r \in FreePids : q <= r
           w == ParentWaits(foreground_mode_flag, background_mode_flag)
           b == ChildBranch(background_mode_flag, input_file, output_file,
                            command_line, io, oo)
       IN  /\ spawnPid' = p
           /\ child' = [child EXCEPT ![p] =
                  [st |-> ChildEnds(b.outcome), ws |-> 0,
                   sigint |-> b.sigint,
                   waited |-> w, announced |-> ~w, reported |-> FALSE]]
           /\ execd' = <<[pid |-> p] @@ b>>
           /\ pc' = IF w THEN "fgwait" ELSE "reap"
           /\ out' = IF w THEN <<>> ELSE <<[k |-> "background pid is", v |-> p]>>
    /\ MainLoopFlag
    /\ UNCHANGED <<user_input, background_mode_flag,
                   child_exit_status, command_line, str, index, input_file,
                   output_file, cwd, eintr, lastFg, deliveries>>

\* main.c:253: waitpid(spawnPid, &child_exit_status, 0) returns the child.
FgWait ==
    /\ pc = "fgwait"
    /\ ~eintr
    /\ child[spawnPid].st = "zombie"
    /\ child_exit_status' = child[spawnPid].ws
    /\ lastFg' = <<child[spawnPid].ws>>
    /\ child' = [child EXCEPT ![spawnPid] = Collected(@)]
    /\ pc' = "reap"
    /\ out' = <<>>
    /\ MainLoopFlag
    /\ UNCHANGED <<user_input, background_mode_flag, spawnPid,
                   command_line, str, index, input_file, output_file, cwd,
                   eintr, deliveries, execd>>

\* main.c:253: the handler ran while waitpid was blocked (sa_flags = 0, no
\* SA_RESTART): waitpid returns -1 with EINTR, and the result is not tested.
FgWaitInterrupted ==
    /\ pc = "fgwait"
    /\ eintr
    /\ eintr' = FALSE
    /\ pc' = "reap"
    /\ out' = <<>>
    /\ MainLoopFlag
    /\ UNCHANGED <<user_input, background_mode_flag,
                   child_exit_status, spawnPid, command_line, str, index,
                   input_file, output_file, cwd, child, lastFg, deliveries,
                   execd>>

\* main.c:262-275, one waitpid(-1, &child_exit_status, WNOHANG) that finds
\* a terminated child: it is reported and the loop goes on.
Reap ==
    /\ pc = "reap"
    /\ \E p \in Zombies :
        /\ spawnPid' = p
        /\ child_exit_status' = child[p].ws
        /\ child' = [child EXCEPT ![p] = [Collected(@) EXCEPT !.reported = TRUE]]
        /\ out' = <<[k |-> "background pid is done", v |-> p],
                    StatusText(child[p].ws)>>
    /\ MainLoopFlag
    /\ UNCHANGED <<pc, user_input, background_mode_flag,
                   command_line, str, index, input_file, output_file, cwd,
                   eintr, lastFg, deliveries, execd>>

\* main.c:262-277: waitpid finds no terminated child (0, or -1 with no
\* child at all); the loop ends and the next iteration begins.
ReapDone ==
    /\ pc = "reap"
    /\ Zombies = {}
    /\ spawnPid' = IF \E p \in Pids : Alive(child[p]) THEN 0 ELSE -1
    /\ out' = <<>>
    /\ NextIteration
    /\ MainLoopFlag
    /\ UNCHANGED <<background_mode_flag,
                   child_exit_status, command_line, str, cwd, child, eintr,
                   lastFg, deliveries>>

\* A handler whose else branch does not clear the flag.
Toggled_Sticky(flag) == 1

\* main.c:36-47: the value handle_SIGTSTP leaves in foreground_mode_flag.
Toggled(flag) == IF flag = 0 THEN 1 ELSE 0

\* main.c:36-47: the message handle_SIGTSTP writes.
Notification(flag) ==
    IF flag = 0 THEN [k |-> "Entering foreground-only mode", v |-> 0]
    ELSE [k |-> "Exiting foreground-only mode", v |-> 0]

\* main.c:35-48, run by the kernel between two steps of the shell.  When
\* the shell is blocked in waitpid for a child that has not terminated, the
\* call then fails with EINTR (main.c:106).  (An interrupted fgets leaves
\* the "\n" of main.c:120 in user_input: the iteration of a blank line.)
handle_SIGTSTP ==
    /\ pc \in {"read", "fork", "fgwait", "reap"}
    /\ foreground_mode_flag' = Toggled(foreground_mode_flag)
    /\ out' = <<Notification(foreground_mode_flag)>>
    /\ deliveries' = (deliveries + 1) % 2
    /\ eintr' = (eintr \/ (pc = "fgwait" /\ Alive(child[spawnPid])))
    /\ UNCHANGED <<pc, user_input, background_mode_flag, child_exit_status, spawnPid,
                   command_line, str, index, input_file, output_file, cwd,
                   child, lastFg, execd>>

\* A child terminates: a failing child by its _exit(1); a running one
\* exits or is killed by a signal other than SIGINT.
ChildExit ==
    \E p \in Pids, ws \in WaitStatuses :
        /\ Alive(child[p])
        /\ child[p].st = "failing" => ws = 256
        /\ ~KilledBySigint(ws)
        /\ child' = [child EXCEPT ![p].st = "zombie", ![p].ws = ws]
        /\ UNCHANGED <<pc, user_input, foreground_mode_flag, background_mode_flag,
                       child_exit_status, spawnPid, command_line, str, index,
                       input_file, output_file, cwd, eintr, out, lastFg, deliveries,
                       execd>>

\* A shell that leaves SIGINT at its default action.
ShellSigint_Default == "DFL"

\* main.c:98-102: the disposition of SIGINT in the shell (handle_SIGINT of
\* main.c:27-30 is never installed).
ShellSigint == "IGN"

\* SIGINT is sent to the shell and to the children in S (all of them for
\* the interrupt key of the terminal, none for a signal sent to the shell
\* alone).  The shell acts by its disposition; a running child that has
\* the default action is killed, wait status 2.
Interrupt ==
    /\ pc \in {"read", "fork", "fgwait", "reap"}
    /\ \E S \in SUBSET Pids :
        child' = [p \in Pids |->
                    IF p \in S /\ child[p].st = "running"
                               /\ child[p].sigint = "DFL"
                    THEN [child[p] EXCEPT !.st = "zombie", !.ws = 2]
                    ELSE child[p]]
    /\ CASE ShellSigint = "IGN" -> UNCHANGED <<pc, out, eintr>>
         [] ShellSigint = "DFL" -> pc' = "killed" /\ UNCHANGED <<out, eintr>>
         [] OTHER ->
              /\ out' = <<[k |-> "Caught SIGINT", v |-> 0]>>
              /\ eintr' = (eintr \/ (pc = "fgwait" /\ Alive(child[spawnPid])))
              /\ pc' = pc
    /\ UNCHANGED <<user_input, foreground_mode_flag, background_mode_flag,
                   child_exit_status, spawnPid, command_line, str, index,
                   input_file, output_file, cwd, lastFg, deliveries, execd>>

Next ==
    \/ ReadLine
    \/ ForkFail
    \/ Fork
    \/ FgWait
    \/ FgWaitInterrupted
    \/ Reap
    \/ ReapDone
    \/ handle_SIGTSTP
    \/ ChildExit
    \/ Interrupt

Spec == Init /\ [][Next]_vars

\* The shell's own steps: the main loop runs whenever it is not blocked.
Shell ==
    ReadLine \/ ForkFail \/ Fork \/ FgWait \/ FgWaitInterrupted \/ Reap
        \/ ReapDone

\* The main loop keeps running: a line is read whenever the shell is at the
\* prompt, and every enabled step of the loop is eventually taken.
LiveSpec == Init /\ [][Next]_vars /\ WF_vars(Shell)

\* ------------------------------------------------------------------ claims
Ended == {"exited", "fork_exit", "segv"}

\* The latest step of the shell was the status built-in (main.c:188-197).
StatusPrinted ==
    /\ pc = "reap"
    /\ user_input = L_status
    /\ Len(out) = 1
    /\ out[1].k \in {"exit value", "terminated by signal"}

\* The latest step of the shell was a report of the reaper (main.c:264-273).
DonePrinted == Len(out) = 2 /\ out[1].k = "background pid is done"

\* C1: whenever the status built-in has just printed and a foreground wait
\* has completed before, what it printed is the status collected by the
\* latest foreground wait: the reaper never replaced it.
C1_StatusIsLastForeground ==
    (StatusPrinted /\ lastFg # <<>>) => out[1] = StatusText(lastFg[1])

\* C2: a child the shell waits for in the foreground has been collected by
\* that wait, with its status recorded, whenever the shell is anywhere but
\* blocked in the wait for it: in particular at the next prompt.
C2_ForegroundWaitCompletes ==
    \A p \in Pids :
        (child[p].waited /\ ~(pc = "fgwait" /\ spawnPid = p))
            => (child[p].st = "reaped" /\ ~child[p].reported)

\* C3: the step that launches a child puts it in the background (announces
\* its pid and goes on without waiting) exactly when the line's last
\* argument token was "&" and foreground-only mode is off, and otherwise
\* enters the foreground wait; the shell then stays blocked until that child
\* has terminated, and it is never blocked on a child it announced.
C3_LaunchStep ==
    (pc = "fork" /\ pc' \in {"fgwait", "reap"})
        => /\ (pc' = "reap") <=>
                  (background_mode_flag = 1 /\ foreground_mode_flag = 0)
           /\ (pc' = "reap") <=> child'[spawnPid'].announced
           /\ (pc' = "fgwait") <=> child'[spawnPid'].waited

C3_Blocks ==
    /\ \A p \in Pids :
           (child[p].waited /\ child[p].st = "running")
               => (pc = "fgwait" /\ spawnPid = p)
    /\ pc = "fgwait" => ~child[spawnPid].announced

C3_BackgroundExactlyWhenAmpAndNotForegroundOnly ==
    [][C3_LaunchStep]_vars /\ []C3_Blocks

\* C4: every child that has not terminated has SIGINT at its default
\* disposition when the parent waits for it in the foreground, and ignored
\* when the parent launched it in the background.
C4_SigintAgreesWithWait ==
    \A p \in Pids :
        child[p].st = "running"
            => (child[p].sigint = "DFL") <=> child[p].waited

\* C5: if the shell keeps reading lines, every background child that has
\* terminated is eventually reported by the reaper.
C5_BackgroundEventuallyReported ==
    []<><<ReadLine>>_vars
        => \A p \in Pids :
               (child[p].announced /\ child[p].st = "zombie")
                   ~> child[p].reported

\* C6: no iteration of the main loop ends without the reaper having run: a
\* line read while a terminated child is uncollected never takes the shell
\* straight back to the prompt.
C6_ReaperRunsEveryIteration ==
    [][(pc = "read" /\ Zombies # {} /\ ReadLine) => pc' # "read"]_vars

\* C7: the shell process ends through the exit built-in only; a failed fork
\* does not end it.  (The shell ended by a faulting memory access is C8.)
C7_OnlyExitEndsShell ==
    pc \in Ended => pc \in {"exited", "segv"}

\* C8: a lone "&", or a line whose last token is "<" with no path after it,
\* never ends the shell with a faulting access.
C8_MalformedInput ==
    user_input \in {L_amp, L_a_lt_eof} => pc # "segv"

\* C9: status run before any foreground wait has completed and before any
\* child has been reaped prints "exit value 0".
C9_InitialStatus ==
    (StatusPrinted /\ lastFg = <<>>
        /\ \A p \in Pids : child[p].st # "reaped")
        => out[1] = [k |-> "exit value", v |-> 0]

\* The exit status a wait status stands for, as it should be printed: the
\* exit code of a child that exited, the number of the signal (the low seven
\* bits, without the core-dump bit) of a child that was killed.
ExitStatus(s) ==
    IF s % 128 = 0 THEN [k |-> "exit value", v |-> (s \div 256) % 256]
    ELSE [k |-> "terminated by signal", v |-> s % 128]

\* No child was launched in the background or reported by the reaper.
NoBackground ==
    \A p \in Pids : ~child[p].announced /\ ~child[p].reported

\* C10: with no background child, status prints the exit code, or the number
\* of the terminating signal, of the status the latest foreground wait
\* collected; and every report of the reaper decodes the status it collected
\* the same way.
C10_StatusDecoding ==
    /\ (StatusPrinted /\ NoBackground /\ lastFg # <<>>)
           => out[1] = ExitStatus(lastFg[1])
    /\ DonePrinted => out[2] = ExitStatus(child_exit_status)

\* C11: after an even number of SIGTSTP deliveries the foreground-only flag
\* has its original value 0, after an odd number it is 1; a launch puts the
\* child in the background exactly when the line ended in "&" and the number
\* of deliveries is even; and each delivery inverts the flag and writes the
\* entering notification on 0 -> 1, the exiting notification on 1 -> 0.
C11_Parity == foreground_mode_flag = deliveries

C11_Delivery ==
    /\ deliveries' # deliveries
           => /\ foreground_mode_flag' = 1 - foreground_mode_flag
              /\ foreground_mode_flag = 0
                     => out'[1].k = "Entering foreground-only mode"
              /\ foreground_mode_flag = 1
                     => out'[1].k = "Exiting foreground-only mode"
    /\ (pc = "fork" /\ pc' \in {"fgwait", "reap"})
           => ((pc' = "reap") <=> (background_mode_flag = 1 /\ deliveries = 0))

C11_EvenDeliveriesRestoreFlag == []C11_Parity /\ [][C11_Delivery]_vars

\* Two deliveries have brought the flag back to 0.
C11_Witness ==
    /\ deliveries = 0
    /\ foreground_mode_flag = 0
    /\ out = <<[k |-> "Exiting foreground-only mode", v |-> 0]>>

\* Lines that are blank, made of white space only, or a comment.
QuietLines == {L_blank, L_space, L_comment}

\* C12: reading a blank line, a line of white space only, or a comment line
\* dispatches nothing (the shell is back at the prompt, no built-in ran, no
\* child was forked) and leaves the recorded status, the foreground-only
\* flag and the working directory as they were.
C12_QuietLineChangesNothing ==
    [][(ReadLine /\ user_input' \in QuietLines)
          => /\ pc' = "read"
             /\ UNCHANGED <<child_exit_status, foreground_mode_flag, cwd,
                            child>>]_vars

\* The step in which fork() succeeds and the child runs its branch.
ForkStep == pc = "fork" /\ pc' \in {"fgwait", "reap"}

\* The child forked in this iteration failed while it was being set up.
SetupFailed == execd # <<>> /\ execd[1].outcome # "exec"

C13_ChildStates ==
    \A p \in Pids :
        child[p].st \in {"none", "running", "failing", "zombie", "reaped"}

C13_Step ==
    /\ (ForkStep /\ execd'[1].outcome # "exec")
           => /\ child'[execd'[1].pid].st = "failing"
              /\ UNCHANGED <<child_exit_status, foreground_mode_flag, cwd>>
    /\ \A p \in Pids :
           (child[p].st = "failing" /\ child'[p] # child[p])
               => /\ child'[p].st = "zombie"
                  /\ WIFEXITED(child'[p].ws)
                  /\ WEXITSTATUS(child'[p].ws) # 0
    /\ pc \in {"fgwait", "reap"} => pc' \in {"fgwait", "reap", "read"}

\* C13: a child whose input file or output file cannot be opened, whose dup2
\* fails or whose exec fails does nothing but exit with a nonzero code: no
\* child is ever anywhere else than running its program, failing, terminated
\* or collected (none is back in the shell's loop), and the parent, from the
\* launch on, only waits, reaps and returns to the prompt.
C13_SetupFailureExitsChild == []C13_ChildStates /\ [][C13_Step]_vars

\* The foreground wait has collected a child that could not open its input
\* file and exited with code 1, and the shell goes on to the reaper.
C13_Witness ==
    /\ pc = "reap"
    /\ SetupFailed
    /\ execd[1].outcome = "in_open"
    /\ child[execd[1].pid].st = "reaped"
    /\ lastFg = <<256>>
    /\ child_exit_status = 256

\* The text of a token of the line: the token without its white space.
Word(token) == Sscanf(token, <<>>)

\* The text every occurrence of the placeholder in w is replaced in.
Expanded(w) == replace_double_dollarsigns(w, ShellPidDigits)

\* C14: when a line has been tokenized for an external command, every token
\* with the placeholder "$$" has been expanded: the path stored for a token
\* that follows "<" or ">" is that token with each occurrence replaced by
\* the shell's pid, and no argument holds an unexpanded placeholder.
C14_EveryTokenExpanded ==
    pc = "fork" =>
        LET toks == Strtok(user_input)
        IN  /\ \A k \in 1..(Len(toks) - 1) :
                /\ toks[k] = <<"<">> => input_file = Expanded(Word(toks[k + 1]))
                /\ toks[k] = <<">">> => output_file = Expanded(Word(toks[k + 1]))
            /\ \A k \in 1..Len(toks) :
                HasDD(toks[k]) /\ (k > 1 => toks[k - 1] \notin {<<"<">>, <<">">>})
                    => \E i \in Slots : command_line[i] = Expanded(Word(toks[k]))

\* C15: a child launched in the background that has reached exec reads
\* from the null device when its line named no input file, and writes to
\* the null device when its line named no output file.
C15_BackgroundDefaultsToNull ==
    (/\ execd # <<>>
     /\ execd[1].outcome = "exec"
     /\ child[execd[1].pid].announced)
        => /\ input_file = <<>> => execd[1].stdin = "null"
           /\ output_file = <<>> => execd[1].stdout = "null"

\* C16: SIGINT delivered to the shell, wherever the main loop is, does not
\* end the shell, does not move it, changes neither the foreground-only
\* flag nor the recorded status, and makes the shell write nothing.
C16_SigintLeavesShellAlone ==
    /\ [](pc # "killed")
    /\ [][Interrupt => UNCHANGED <<pc, foreground_mode_flag,
                                   child_exit_status, out, eintr>>]_vars

\* SIGINT has killed the foreground child, and the shell is still in its
\* foreground wait, about to collect it.
C16_Witness ==
    /\ pc = "fgwait"
    /\ ~eintr
    /\ child[spawnPid].st = "zombie"
    /\ child[spawnPid].ws = 2

\* C17: the foreground-only flag changes only in a run of the SIGTSTP
\* handler; no step of the main loop (reading and tokenizing a line, a
\* built-in, forking, waiting, reaping) changes it.
C17_OnlyHandlerWritesFlag ==
    [][foreground_mode_flag' # foreground_mode_flag => handle_SIGTSTP]_vars

\* In foreground-only mode the loop has read a line ending in "&", forked,
\* waited for the child and collected it, and the flag is still set.
C17_Witness ==
    /\ pc = "reap"
    /\ foreground_mode_flag = 1
    /\ background_mode_flag = 1
    /\ spawnPid \in Pids
    /\ child[spawnPid].st = "reaped"
    /\ child[spawnPid].waited
    /\ lastFg # <<>>

\* The words of a line: its tokens without their white space, in order.
Words(line) ==
    LET toks == Strtok(line)
    IN  SelectSeq([k \in 1..Len(toks) |-> Word(toks[k])], LAMBDA w : w # <<>>)

RECURSIVE WithoutRedirections(_)
\* The words left when each "<" or ">" and the path after it are taken out.
WithoutRedirections(ws) ==
    IF ws = <<>> THEN <<>>
    ELSE IF Head(ws) \in {<<"<">>, <<">">>}
         THEN WithoutRedirections(SubSeq(ws, 3, Len(ws)))
         ELSE <<Head(ws)>> \o WithoutRedirections(Tail(ws))

\* The words left when a trailing "&" is taken out.
WithoutAmp(ws) ==
    IF ws # <<>> /\ ws[Len(ws)] = T_amp THEN SubSeq(ws, 1, Len(ws) - 1) ELSE ws

\* The arguments a line asks for.
Arguments(line) ==
    LET ws == WithoutRedirections(WithoutAmp(Words(line)))
    IN  [k \in 1..Len(ws) |-> Expanded(ws[k])]

\* C18: the argument vector a child hands to exec is the words of the line
\* in their order, without the "<" and ">" operators, without the path
\* after each of them and without a trailing "&", whatever the mode.
C18_ArgvIsRemainingTokens ==
    (execd # <<>> /\ execd[1].outcome \in {"exec", "exec_fails"})
        => execd[1].argv = Arguments(user_input)

\* The words of the line, each with its placeholders expanded or as typed.
LineWords(line) ==
    LET ws == Words(line)
    IN  {ws[k] : k \in 1..Len(ws)} \cup {Expanded(ws[k]) : k \in 1..Len(ws)}

\* C19: what an iteration dispatches comes from the line it has read: the
\* command name and every argument are words of that line, each
\* redirection path is empty or a word of that line, and the command is
\* marked for the background only when that line holds "&".
C19_DispatchFromCurrentLine ==
    pc \in {"fork", "fgwait", "reap", "exited"} =>
        LET argv == Argv(command_line)
        IN  /\ \A k \in 1..Len(argv) : argv[k] \in LineWords(user_input)
            /\ input_file \in {<<>>} \cup LineWords(user_input)
            /\ output_file \in {<<>>} \cup LineWords(user_input)
            /\ background_mode_flag = 1 => T_amp \in LineWords(user_input)

\* C20: every child the reaper has reported as a finished background job
\* was launched in the background and announced with its pid; no child
\* launched in the foreground is reported by the reaper.
C20_ReportedWasAnnounced ==
    \A p \in Pids :
        child[p].reported => (child[p].announced /\ ~child[p].waited)

====
